---- MODULE Spec2Model ----
(***************************************************************************)
(* A model of pattern_agentic_settings/base.py: PABaseSettings, a          *)
(* pydantic-settings BaseSettings record that is loaded from the process   *)
(* environment and up to two dotenv files, re-read in place by reload(),   *)
(* described with redaction by safe_describe() and whose validation errors *)
(* are formatted by format_config_validation_error().                      *)
(*                                                                         *)
(* Strings are TLA+ strings.  Where the code looks inside a string (the    *)
(* substring test of safe_describe, the ordering used by sorted(), the     *)
(* split/capitalize of the package name) the string is taken apart with    *)
(* Chars, a table from the strings of the model to their characters.       *)
(* A message that contains newlines is held as the sequence of its lines.  *)
(***************************************************************************)
EXTENDS Integers, Sequences, FiniteSets, TLC

VARIABLES
    env,      \* os.environ, keyed by the field a variable feeds (env_prefix + name)
    files,    \* the filesystem: path -> NoFile or the KEY=VALUE content of the file
    inst,     \* the live settings instance (its model_dump), NoInst before load
    log,      \* the records the logger received during the most recent call
    op,       \* the kind of the most recent step: "init", "world", "load", "reload"
    result,   \* how the most recent call ended: "none", "ok" or the exception type
    errmsg,   \* the lines of the message of the exception raised by the most recent call
    _env_file, \* the _env_file list the most recent call gave the constructor
    nchg,     \* number of changes made to the environment and the files so far
    errsA,    \* format_config_validation_error: error.errors() in one order
    errsB,    \*   the same errors as the validation engine may report them otherwise
    msgA,     \*   the message formatted from errsA (<<>> before the call)
    msgB,     \*   the message formatted from errsB
    recA,     \* safe_describe: the model_dump of one record
    recB,     \*   the model_dump of a second record with the same fields
    outA,     \*   safe_describe() of recA as lines (<<>> before the call)
    outB      \*   safe_describe() of recB

vars == <<env, files, inst, log, op, result, errmsg, _env_file, nchg,
          errsA, errsB, msgA, msgB, recA, recB, outA, outB>>

lifeVars == <<env, files, inst, log, op, result, errmsg, _env_file, nchg>>
fmtVars  == <<errsA, errsB, msgA, msgB>>
descVars == <<recA, recB, outA, outB>>

----------------------------------------------------------------------------
(* Bounds of the model *)

\* how many times the environment and the override files change in one run
MaxChanges == 2
\* how many entries a ValidationError handed to the formatter has at most
MaxErrs == 3

----------------------------------------------------------------------------
(* Values *)

\* Python's None; a token no string of the model equals
None == "<None>"
\* a key that a source (the environment, a file, an instance not yet built) lacks
Unset == "<unset>"

\* str(v) as used by an f-string
Str(v) == IF v = None THEN "None" ELSE v

\* bool(v) of an Optional[str]: None and '' are falsy
Truthy(v) == v /= None /\ v /= ""

----------------------------------------------------------------------------
(* Characters of the strings the code looks into *)

Chars ==
    [s \in {"dot_env", "dot_env_secrets", "app_name", "app_version", "x", "mode",
            "api_key", "db_password", "hostname", "unknown", "auth_token",
            "service_account_file", "monkey", "author", "app_secret", "port"} |->
       CASE s = "dot_env"         -> <<"d","o","t","_","e","n","v">>
         [] s = "dot_env_secrets" -> <<"d","o","t","_","e","n","v","_","s","e","c","r","e","t","s">>
         [] s = "app_name"        -> <<"a","p","p","_","n","a","m","e">>
         [] s = "app_version"     -> <<"a","p","p","_","v","e","r","s","i","o","n">>
         [] s = "x"               -> <<"x">>
         [] s = "mode"            -> <<"m","o","d","e">>
         [] s = "api_key"         -> <<"a","p","i","_","k","e","y">>
         [] s = "db_password"     -> <<"d","b","_","p","a","s","s","w","o","r","d">>
         [] s = "hostname"        -> <<"h","o","s","t","n","a","m","e">>
         [] s = "unknown"         -> <<"u","n","k","n","o","w","n">>
         [] s = "auth_token"      -> <<"a","u","t","h","_","t","o","k","e","n">>
         [] s = "service_account_file" ->
                <<"s","e","r","v","i","c","e","_","a","c","c","o","u","n","t","_","f","i","l","e">>
         [] s = "monkey"          -> <<"m","o","n","k","e","y">>
         [] s = "author"          -> <<"a","u","t","h","o","r">>
         [] s = "app_secret"      -> <<"a","p","p","_","s","e","c","r","e","t">>
         [] s = "port"            -> <<"p","o","r","t">>]

Letters == <<"a","b","c","d","e","f","g","h","i","j","k","l","m",
             "n","o","p","q","r","s","t","u","v","w","x","y","z">>
Capitals == <<"A","B","C","D","E","F","G","H","I","J","K","L","M",
              "N","O","P","Q","R","S","T","U","V","W","X","Y","Z">>

IndexIn(c, seq) == CHOOSE i \in 1..Len(seq) : seq[i] = c
IsIn(c, seq) == \E i \in 1..Len(seq) : seq[i] = c

\* ord(c), the code point Python compares strings by
Ord(c) == IF IsIn(c, Capitals) THEN 64 + IndexIn(c, Capitals)
          ELSE IF IsIn(c, Letters) THEN 96 + IndexIn(c, Letters)
          ELSE IF c = "_" THEN 95
          ELSE IF c = "-" THEN 45
          ELSE 32

\* c.upper() and c.lower() of one character
Upper(c) == IF IsIn(c, Letters) THEN Capitals[IndexIn(c, Letters)] ELSE c
Lower(c) == IF IsIn(c, Capitals) THEN Letters[IndexIn(c, Capitals)] ELSE c

\* a < b on two strings given by their characters (lexicographic by code point)
RECURSIVE LexLess(_, _)
LexLess(a, b) ==
    IF b = <<>> THEN FALSE
    ELSE IF a = <<>> THEN TRUE
    ELSE IF Ord(Head(a)) /= Ord(Head(b)) THEN Ord(Head(a)) < Ord(Head(b))
    ELSE LexLess(Tail(a), Tail(b))

\* sub in s, Python's substring test
Contains(s, sub) ==
    \E i \in 1..(Len(s) - Len(sub) + 1) : SubSeq(s, i, i + Len(sub) - 1) = sub

\* the characters joined back into one string
RECURSIVE Joined(_)
Joined(cs) == IF cs = <<>> THEN "" ELSE Head(cs) \o Joined(Tail(cs))

\* sorted(names): ascending, duplicates kept
RECURSIVE Insert(_, _)
Insert(n, sortedSeq) ==
    IF sortedSeq = <<>> THEN <<n>>
    ELSE IF LexLess(Chars[Head(sortedSeq)], Chars[n])
         THEN <<Head(sortedSeq)>> \o Insert(n, Tail(sortedSeq))
         ELSE <<n>> \o sortedSeq

\* (mutant) the names are left in the order given
sorted_AsGiven(names) == names

RECURSIVE sorted(_)
sorted(names) == IF names = <<>> THEN <<>> ELSE Insert(Head(names), sorted(Tail(names)))

----------------------------------------------------------------------------
(* The settings class: PABaseSettings and the fields of a consumer subclass *)

\* model_fields in declaration order: the four fields of PABaseSettings, then the
\* fields a consumer declares (x: str = "d", mode: Literal["dev", "prod"],
\* db_password: str, api_key: str)
FieldOrder == <<"dot_env", "dot_env_secrets", "app_name", "app_version",
                "x", "mode", "db_password", "api_key">>
Fields == {FieldOrder[i] : i \in 1..Len(FieldOrder)}
\* the fields load and reload pass to the constructor as keyword arguments
InitFields == {"dot_env", "dot_env_secrets", "app_name", "app_version"}
ConsumerFields == Fields \ InitFields

HasDefault(k) == k \in {"dot_env", "dot_env_secrets", "x"}
Default(k) == IF k = "x" THEN "d" ELSE None

\* the validation error of value v for field k, or "" when v is valid
TypeError(k, v) ==
    IF k \in {"dot_env", "dot_env_secrets"} THEN ""
    ELSE IF v = None THEN "Input should be a valid string"
    ELSE IF k = "mode" /\ v \notin {"dev", "prod"} THEN "Input should be 'dev' or 'prod'"
    ELSE ""

\* no instance: what the caller holds before load has returned one
NoInst == [k \in Fields |-> Unset]
\* a path that is no regular file, and a file without entries
NoKeys == [k \in Fields |-> Unset]
NoFile == [exists |-> FALSE, kv |-> NoKeys]
Paths == {"p1", "p2"}

\* os.path.isfile(p)
isfile(fs, p) == p \in DOMAIN fs /\ fs[p].exists

\* os.environ.get(name, None)
environ_get(e, k) == IF e[k] = Unset THEN None ELSE e[k]

\* (mutant) the secrets file listed before the base file
env_files_of_SecretsFirst(a, b) == SelectSeq(<<b, a>>, Truthy)

\* [p for p in [a, b] if p]
env_files_of(a, b) == SelectSeq(<<a, b>>, Truthy)

\* the dotenv source of pydantic-settings: the files of _env_file that exist are
\* read in order, a later file overriding an earlier one key by key
RECURSIVE DotenvValue(_, _, _)
DotenvValue(env_file, fs, k) ==
    IF env_file = <<>> THEN Unset
    ELSE LET n == Len(env_file)
             p == env_file[n]
         IN IF isfile(fs, p) /\ fs[p].kv[k] /= Unset
            THEN fs[p].kv[k]
            ELSE DotenvValue(SubSeq(env_file, 1, n - 1), fs, k)

\* (mutant) the dotenv files consulted before the environment variables
SourceValue_FilesFirst(kwargs, env_file, e, fs, k) ==
    IF k \in DOMAIN kwargs THEN kwargs[k]
    ELSE IF DotenvValue(env_file, fs, k) /= Unset THEN DotenvValue(env_file, fs, k)
    ELSE IF e[k] /= Unset THEN e[k]
    ELSE IF HasDefault(k) THEN Default(k)
    ELSE Unset

\* the value the settings sources give field k.  PABaseSettings extends
\* pydantic-settings' BaseSettings and does not customise its sources, so the order
\* is BaseSettings': constructor arguments, then environment variables, then the
\* dotenv files, then the field default
SourceValue(kwargs, env_file, e, fs, k) ==
    IF k \in DOMAIN kwargs THEN kwargs[k]
    ELSE IF e[k] /= Unset THEN e[k]
    ELSE IF DotenvValue(env_file, fs, k) /= Unset THEN DotenvValue(env_file, fs, k)
    ELSE IF HasDefault(k) THEN Default(k)
    ELSE Unset

\* the entries of ValidationError.errors(), one per failing field, in field order
RECURSIVE FieldErrors(_, _)
FieldErrors(vals, order) ==
    IF order = <<>> THEN <<>>
    ELSE LET k == Head(order)
             here == IF vals[k] = Unset
                     THEN <<[type |-> "missing", loc |-> <<k>>, msg |-> "Field required"]>>
                     ELSE IF TypeError(k, vals[k]) /= ""
                     THEN <<[type |-> "invalid", loc |-> <<k>>, msg |-> TypeError(k, vals[k])]>>
                     ELSE <<>>
         IN here \o FieldErrors(vals, Tail(order))

\* cls(app_version=..., app_name=..., dot_env=..., dot_env_secrets=..., _env_file=...):
\* the validated field values, or the validation errors
Construct(kwargs, env_file, e, fs) ==
    LET vals == [k \in Fields |-> SourceValue(kwargs, env_file, e, fs, k)]
        errs == FieldErrors(vals, FieldOrder)
    IN [ok |-> errs = <<>>, values |-> vals, errors |-> errs]

----------------------------------------------------------------------------
(* format_config_validation_error *)

\* err['loc'][0] if err['loc'] else 'unknown'
field_name(err) == IF err.loc /= <<>> THEN err.loc[1] ELSE "unknown"

\* (mutant) only the first missing field is kept, as if validation stopped there
missing_fields_FirstOnly(errors) ==
    LET all == SelectSeq(errors, LAMBDA e : e.type = "missing")
    IN IF all = <<>> THEN <<>> ELSE <<field_name(all[1])>>

RECURSIVE missing_fields(_)
missing_fields(errors) ==
    IF errors = <<>> THEN <<>>
    ELSE (IF Head(errors).type = "missing" THEN <<field_name(Head(errors))>> ELSE <<>>)
         \o missing_fields(Tail(errors))

RECURSIVE invalid_fields(_)
invalid_fields(errors) ==
    IF errors = <<>> THEN <<>>
    ELSE (IF Head(errors).type /= "missing"
          THEN <<field_name(Head(errors)) \o ": " \o Head(errors).msg>> ELSE <<>>)
         \o invalid_fields(Tail(errors))

\* "  - {field}\n" for each field of the list
Bullets(fields) == [i \in 1..Len(fields) |-> "  - " \o fields[i]]

\* the message, as its lines
format_config_validation_error(errors) ==
    <<"Configuration validation failed:">>
    \o (IF missing_fields(errors) /= <<>>
        THEN <<"", "Missing required configuration fields:">>
             \o Bullets(sorted(missing_fields(errors)))
        ELSE <<>>)
    \o (IF invalid_fields(errors) /= <<>>
        THEN <<"", "Invalid configuration values:">>
             \o Bullets(invalid_fields(errors))
        ELSE <<>>)
    \o <<"", "Please check your environment variables or .env file.">>

----------------------------------------------------------------------------
(* safe_describe *)

sensitive_keys == << <<"p","a","s","s","w","o","r","d">>, <<"s","e","c","r","e","t">>,
                     <<"k","e","y">>, <<"t","o","k","e","n">>, <<"a","u","t","h">>,
                     <<"s","e","r","v","i","c","e","_","a","c","c","o","u","n","t">> >>

\* (mutant) the name itself is looked up in the list, not searched for the substrings
IsSensitive_WholeName(key) ==
    \E i \in 1..Len(sensitive_keys) : Chars[key] = sensitive_keys[i]

\* any(x in key for x in sensitive_keys)
IsSensitive(key) ==
    \E i \in 1..Len(sensitive_keys) : Contains(Chars[key], sensitive_keys[i])

\* safe_desc[key]
SafeValue(key, value) ==
    IF IsSensitive(key)
    THEN (IF value = None \/ value = "" THEN "(empty)" ELSE "(redacted)")
    ELSE Str(value)

\* the lines that safe_describe joins with "\n"; order is model_dump's key order
safe_describe(order, rec, indent) ==
    LET keys == sorted(order)
    IN [i \in 1..Len(keys) |-> indent \o keys[i] \o ": " \o SafeValue(keys[i], rec[keys[i]])]

----------------------------------------------------------------------------
(* load: version and name resolution *)

\* the distributions importlib.metadata knows, with their versions
InstalledVersion(pkg) == IF pkg = <<"p","k","g">> THEN "2.0" ELSE Unset

\* what importlib.metadata.version(pkg) can do: return the version, raise
\* PackageNotFoundError, or (for an empty name, depending on the Python version)
\* raise ValueError, which _version_from_importlib does not catch
MetadataOutcomes(pkg) ==
    IF InstalledVersion(pkg) /= Unset THEN {InstalledVersion(pkg)}
    ELSE IF pkg = <<>> THEN {"PackageNotFoundError", "ValueError"}
    ELSE {"PackageNotFoundError"}

\* fallback or "0.0.0-dev"
_version_from_importlib(outcome, fallback) ==
    IF outcome = "PackageNotFoundError"
    THEN (IF Truthy(fallback) THEN fallback ELSE "0.0.0-dev")
    ELSE outcome

\* s.replace("-", "_")
replace_hyphens(cs) == [i \in 1..Len(cs) |-> IF cs[i] = "-" THEN "_" ELSE cs[i]]

\* s.split("_"): the pieces between the separators, empty pieces kept
RECURSIVE split(_)
split(cs) ==
    IF \A i \in 1..Len(cs) : cs[i] /= "_" THEN <<cs>>
    ELSE LET i == CHOOSE j \in 1..Len(cs) :
                      cs[j] = "_" /\ \A h \in 1..(j - 1) : cs[h] /= "_"
         IN <<SubSeq(cs, 1, i - 1)>> \o split(SubSeq(cs, i + 1, Len(cs)))

\* word.capitalize(): first character upper case, the rest lower case
capitalize(w) ==
    [i \in 1..Len(w) |-> IF i = 1 THEN Upper(w[i]) ELSE Lower(w[i])]

\* " ".join(words)
RECURSIVE join_spaces(_)
join_spaces(words) ==
    IF words = <<>> THEN ""
    ELSE IF Len(words) = 1 THEN Joined(words[1])
    ELSE Joined(words[1]) \o " " \o join_spaces(Tail(words))

\* " ".join(word.capitalize() for word in package_name.replace("-", "_").split("_"))
pretty_name(package_name) ==
    LET components == split(replace_hyphens(package_name))
    IN join_spaces([i \in 1..Len(components) |-> capitalize(components[i])])

----------------------------------------------------------------------------
(* The arguments and the surroundings the model draws from *)

PackageNames == { <<>>, <<"p","k","g">>,
                  <<"m","y","-","c","o","o","l","-","a","p","p">> }

LoadArgs == [package_name : PackageNames,
             app_name : {None, "", "N"},
             app_version : {None, "", "1.0"},
             fallback_version : {None, "", "f"},
             log_conf_on_startup : BOOLEAN]

\* the calls of load the life of an instance is followed from
StartupArgs == [package_name : { <<"m","y","-","c","o","o","l","-","a","p","p">> },
                app_name : {None},
                app_version : {"1.0"},
                fallback_version : {None},
                log_conf_on_startup : BOOLEAN]

\* the values an environment variable, and an entry of a dotenv file, may be given
EnvDomain(k) ==
    CASE k = "dot_env" -> {"", "p1", "p2"}
      [] k = "dot_env_secrets" -> {"p1", "p2"}
      [] k = "app_name" -> {"Z"}
      [] k = "app_version" -> {}
      [] k = "x" -> {"a", "b"}
      [] k = "mode" -> {"dev", "bad"}
      [] k = "api_key" -> {"k"}
      [] k = "db_password" -> {}

FileDomain(k) ==
    CASE k = "dot_env" -> {}
      [] k = "dot_env_secrets" -> {}
      [] k = "app_name" -> {}
      [] k = "app_version" -> {"9"}
      [] k = "x" -> {"a", "b"}
      [] k = "mode" -> {"dev", "bad"}
      [] k = "api_key" -> {"k"}
      [] k = "db_password" -> {"pw"}

BaseFile == [exists |-> TRUE,
             kv |-> [k \in Fields |-> CASE k = "x" -> "b" [] k = "mode" -> "dev"
                                        [] OTHER -> Unset]]
SecretsFile == [exists |-> TRUE,
                kv |-> [k \in Fields |-> CASE k = "x" -> "a" [] k = "api_key" -> "k"
                                           [] k = "db_password" -> "pw"
                                           [] OTHER -> Unset]]

----------------------------------------------------------------------------
(* The logger *)

info(lines) == [level |-> "info", msg |-> lines]
warning(lines) == [level |-> "warning", msg |-> lines]

\* (mutant) only the base path is checked, as before the secrets file was supported
MissingFileWarnings_BaseOnly(fs, dot_env_path, dot_env_secrets_path) ==
    IF Truthy(dot_env_path) /\ ~isfile(fs, dot_env_path)
    THEN <<[level |-> "warning",
            msg |-> <<"WARNING: dot env file '" \o dot_env_path \o "' does not exist", "">>]>>
    ELSE <<>>

\* the warnings load logs for the paths that are set and are no regular file
MissingFileWarnings(fs, dot_env_path, dot_env_secrets_path) ==
    (IF Truthy(dot_env_path) /\ ~isfile(fs, dot_env_path)
     THEN <<warning(<<"WARNING: dot env file '" \o dot_env_path \o "' does not exist", "">>)>>
     ELSE <<>>)
    \o
    (IF Truthy(dot_env_secrets_path) /\ ~isfile(fs, dot_env_secrets_path)
     THEN <<warning(<<"WARNING: secrets file '" \o dot_env_secrets_path
                       \o "' does not exist", "">>)>>
     ELSE <<>>)

ChangedLine(k) == "Reloading changed parameter " \o k
Separator == "-------------------"

----------------------------------------------------------------------------
(* The life of an instance *)

InitFormatIdle ==
    /\ errsA = <<>> /\ errsB = <<>> /\ msgA = <<>> /\ msgB = <<>>
InitDescribeIdle ==
    /\ recA = <<>> /\ recB = <<>> /\ outA = <<>> /\ outB = <<>>
InitLifeIdle ==
    /\ env = [k \in Fields |-> Unset]
    /\ files = [p \in Paths |-> NoFile]
    /\ inst = NoInst /\ log = <<>> /\ op = "init" /\ result = "none"
    /\ errmsg = <<>> /\ _env_file = <<>> /\ nchg = 0

Init ==
    /\ \E d \in {Unset, "p1"}, s \in {Unset, "p2"} :
          env = [k \in Fields |-> CASE k = "dot_env" -> d
                                    [] k = "dot_env_secrets" -> s
                                    [] OTHER -> Unset]
    /\ \E f1 \in {NoFile, BaseFile}, f2 \in {NoFile, SecretsFile} :
          files = [p \in Paths |-> IF p = "p1" THEN f1 ELSE f2]
    /\ inst = NoInst /\ log = <<>> /\ op = "init" /\ result = "none"
    /\ errmsg = <<>> /\ _env_file = <<>> /\ nchg = 0
    /\ InitFormatIdle /\ InitDescribeIdle

\* load(package_name, app_name, app_version, fallback_version, log_conf_on_startup)
Load(a) ==
    /\ inst = NoInst
    /\ LET dot_env_path == environ_get(env, "dot_env")
           dot_env_secrets_path == environ_get(env, "dot_env_secrets")
           warnings == MissingFileWarnings(files, dot_env_path, dot_env_secrets_path)
           env_files == env_files_of(dot_env_path, dot_env_secrets_path)
       IN \E outcome \in MetadataOutcomes(a.package_name) :
          LET version == IF Truthy(a.app_version) THEN a.app_version
                         ELSE _version_from_importlib(outcome, a.fallback_version)
              pretty_app_name == IF Truthy(a.app_name) THEN a.app_name
                                 ELSE pretty_name(a.package_name)
              c == Construct([app_version |-> version, app_name |-> pretty_app_name,
                              dot_env |-> dot_env_path,
                              dot_env_secrets |-> dot_env_secrets_path],
                             env_files, env, files)
          IN IF ~Truthy(a.app_version) /\ outcome = "ValueError"
             THEN /\ result' = "ValueError"
                  /\ errmsg' = <<"A distribution name is required.">>
                  /\ log' = warnings
                  /\ inst' = inst
             ELSE IF c.ok
             THEN /\ result' = "ok"
                  /\ errmsg' = <<>>
                  /\ inst' = c.values
                  /\ log' = warnings
                       \o <<info(<<pretty_app_name \o " v" \o version>>)>>
                       \o (IF a.log_conf_on_startup
                           THEN <<info(<<"", "Configuration:">>
                                       \o safe_describe(FieldOrder, c.values, "  ")
                                       \o <<"--------------------", "">>)>>
                           ELSE <<>>)
             ELSE /\ result' = "RuntimeError"
                  /\ errmsg' = format_config_validation_error(c.errors)
                  /\ log' = warnings
                  /\ inst' = inst
    /\ _env_file' = env_files_of(environ_get(env, "dot_env"),
                                environ_get(env, "dot_env_secrets"))
    /\ op' = "load"
    /\ UNCHANGED <<env, files, nchg, fmtVars, descVars>>

\* (mutant) every field is logged as changed and overwritten
RECURSIVE ReloadLoop_LogsEveryField(_, _, _, _)
ReloadLoop_LogsEveryField(order, self, new_values, lg) ==
    IF order = <<>> THEN [self |-> self, log |-> lg]
    ELSE LET k == Head(order)
         IN ReloadLoop_LogsEveryField(Tail(order), [self EXCEPT ![k] = new_values[k]],
                                      new_values, Append(lg, info(<<ChangedLine(k)>>)))

\* the loop of reload over new_values.items(): log and overwrite what differs
RECURSIVE ReloadLoop(_, _, _, _)
ReloadLoop(order, self, new_values, lg) ==
    IF order = <<>> THEN [self |-> self, log |-> lg]
    ELSE LET k == Head(order)
         IN IF new_values[k] /= self[k]
            THEN ReloadLoop(Tail(order), [self EXCEPT ![k] = new_values[k]], new_values,
                            Append(lg, info(<<ChangedLine(k)>>)))
            ELSE ReloadLoop(Tail(order), self, new_values, lg)

\* (mutant) the fields are overwritten one by one as they are read, before the
\* rebuilt values are known to be valid
Reload_UpdatesBeforeValidation ==
    /\ inst /= NoInst
    /\ LET env_files == env_files_of(inst["dot_env"], inst["dot_env_secrets"])
           c == Construct([app_version |-> inst["app_version"],
                           app_name |-> inst["app_name"],
                           dot_env |-> inst["dot_env"],
                           dot_env_secrets |-> inst["dot_env_secrets"]],
                          env_files, env, files)
           usable == [k \in Fields |->
                        IF c.values[k] = Unset \/ TypeError(k, c.values[k]) /= ""
                        THEN inst[k] ELSE c.values[k]]
           done == ReloadLoop(FieldOrder, inst, usable, <<>>)
       IN /\ inst' = done.self
          /\ log' = IF c.ok THEN Append(done.log, info(<<Separator>>)) ELSE done.log
          /\ result' = IF c.ok THEN "ok" ELSE "ValidationError"
          /\ errmsg' = <<>>
          /\ _env_file' = env_files
    /\ op' = "reload"
    /\ UNCHANGED <<env, files, nchg, fmtVars, descVars>>

\* (mutant) the override-file paths are read from the environment again
Reload_PathsFromEnvironment ==
    /\ inst /= NoInst
    /\ LET dot_env_path == environ_get(env, "dot_env")
           dot_env_secrets_path == environ_get(env, "dot_env_secrets")
           env_files == env_files_of(dot_env_path, dot_env_secrets_path)
           c == Construct([app_version |-> inst["app_version"],
                           app_name |-> inst["app_name"],
                           dot_env |-> dot_env_path,
                           dot_env_secrets |-> dot_env_secrets_path],
                          env_files, env, files)
           done == ReloadLoop(FieldOrder, inst, c.values, <<>>)
       IN /\ inst' = IF c.ok THEN done.self ELSE inst
          /\ log' = IF c.ok THEN Append(done.log, info(<<Separator>>)) ELSE <<>>
          /\ result' = IF c.ok THEN "ok" ELSE "ValidationError"
          /\ errmsg' = <<>>
          /\ _env_file' = env_files
    /\ op' = "reload"
    /\ UNCHANGED <<env, files, nchg, fmtVars, descVars>>

\* reload()
Reload ==
    /\ inst /= NoInst
    /\ LET env_files == env_files_of(inst["dot_env"], inst["dot_env_secrets"])
           c == Construct([app_version |-> inst["app_version"],
                           app_name |-> inst["app_name"],
                           dot_env |-> inst["dot_env"],
                           dot_env_secrets |-> inst["dot_env_secrets"]],
                          env_files, env, files)
           done == ReloadLoop(FieldOrder, inst, c.values, <<>>)
       IN IF c.ok
          THEN /\ inst' = done.self
               /\ log' = Append(done.log, info(<<Separator>>))
               /\ result' = "ok"
               /\ errmsg' = <<>>
               /\ _env_file' = env_files
          ELSE /\ inst' = inst
               /\ log' = <<>>
               /\ result' = "ValidationError"
               /\ errmsg' = <<>>
               /\ _env_file' = env_files
    /\ op' = "reload"
    /\ UNCHANGED <<env, files, nchg, fmtVars, descVars>>

\* the process environment changes: a variable is set or unset
SetEnv(k, v) ==
    /\ nchg < MaxChanges
    /\ v /= env[k]
    /\ env' = [env EXCEPT ![k] = v]
    /\ nchg' = nchg + 1
    /\ op' = "world"
    /\ UNCHANGED <<files, inst, log, result, errmsg, _env_file, fmtVars, descVars>>

\* an override file is written: entry k is set or removed (the file is created)
WriteFile(p, k, v) ==
    /\ nchg < MaxChanges
    /\ ~files[p].exists \/ v /= files[p].kv[k]
    /\ files' = [files EXCEPT ![p] = [exists |-> TRUE, kv |-> [@.kv EXCEPT ![k] = v]]]
    /\ nchg' = nchg + 1
    /\ op' = "world"
    /\ UNCHANGED <<env, inst, log, result, errmsg, _env_file, fmtVars, descVars>>

\* an override file is removed
RemoveFile(p) ==
    /\ nchg < MaxChanges
    /\ files[p].exists
    /\ files' = [files EXCEPT ![p] = NoFile]
    /\ nchg' = nchg + 1
    /\ op' = "world"
    /\ UNCHANGED <<env, inst, log, result, errmsg, _env_file, fmtVars, descVars>>

World ==
    \/ \E k \in Fields : \E v \in EnvDomain(k) \cup {Unset} : SetEnv(k, v)
    \/ \E p \in Paths : \E k \in Fields : \E v \in FileDomain(k) \cup {Unset} :
          WriteFile(p, k, v)
    \/ \E p \in Paths : RemoveFile(p)

Next ==
    \/ \E a \in StartupArgs : Load(a)
    \/ Reload
    \/ World

Spec == Init /\ [][Next]_vars

\* the same life, load being called with every combination of its arguments
\* (the surroundings change once the instance lives)
NextIdentity ==
    \/ \E a \in LoadArgs : Load(a)
    \/ Reload
    \/ (inst /= NoInst /\ World)

SpecIdentity == Init /\ [][NextIdentity]_vars

----------------------------------------------------------------------------
(* format_config_validation_error on the errors of any validation pass *)

\* entries a validation pass can report: a missing field, an invalid value, and an
\* error of the whole model, whose loc is empty
ErrPool ==
    { [type |-> "missing", loc |-> <<k>>, msg |-> "Field required"] :
        k \in {"mode", "api_key", "x"} }
    \cup { [type |-> "invalid", loc |-> <<"mode">>, msg |-> "Input should be 'dev' or 'prod'"],
           [type |-> "invalid", loc |-> <<"x">>, msg |-> "Input should be a valid string"],
           [type |-> "value_error", loc |-> <<>>, msg |-> "Value error, bad"] }

ErrSeqs == UNION { [1..n -> ErrPool] : n \in 0..MaxErrs }

InitFormat ==
    /\ errsA \in ErrSeqs /\ errsB = errsA
    /\ msgA = <<>> /\ msgB = <<>>
    /\ InitLifeIdle /\ InitDescribeIdle

\* the validation engine reports the same errors in another order
Reorder(i) ==
    /\ msgA = <<>>
    /\ i < Len(errsB)
    /\ errsB[i] /= errsB[i + 1]
    /\ errsB' = [errsB EXCEPT ![i] = errsB[i + 1], ![i + 1] = errsB[i]]
    /\ UNCHANGED <<errsA, msgA, msgB, lifeVars, descVars>>

\* format_config_validation_error(error), for each of the two orders
Format ==
    /\ msgA = <<>>
    /\ msgA' = format_config_validation_error(errsA)
    /\ msgB' = format_config_validation_error(errsB)
    /\ UNCHANGED <<errsA, errsB, lifeVars, descVars>>

NextFormat == (\E i \in 1..MaxErrs : Reorder(i)) \/ Format

SpecFormat == InitFormat /\ [][NextFormat]_vars

----------------------------------------------------------------------------
(* safe_describe on any two records of one settings class *)

\* model_dump's keys of the class described, in declaration order
DescOrder == <<"hostname", "db_password", "api_key">>
DescFields == {DescOrder[i] : i \in 1..Len(DescOrder)}
DescValues == {None, "", "abc123", "x"}

InitDescribe ==
    /\ recA \in [DescFields -> DescValues]
    /\ recB \in [DescFields -> DescValues]
    /\ outA = <<>> /\ outB = <<>>
    /\ InitLifeIdle /\ InitFormatIdle

\* safe_describe() on each of the two records
Describe ==
    /\ outA = <<>>
    /\ outA' = safe_describe(DescOrder, recA, "  ")
    /\ outB' = safe_describe(DescOrder, recB, "  ")
    /\ UNCHANGED <<recA, recB, lifeVars, fmtVars>>

NextDescribe == Describe

SpecDescribe == InitDescribe /\ [][NextDescribe]_vars

----------------------------------------------------------------------------
(* What the claims speak of, read off the state without the operators of load *)

\* the value file `path` gives key k: Unset when the path is not set, names no
\* regular file, or the file has no entry for k
FileVal(path, k) ==
    IF path \in Paths /\ files[path].exists THEN files[path].kv[k] ELSE Unset

\* the paths the DOT_ENV and DOT_ENV_SECRETS variables hold now
BasePath == env["dot_env"]
SecretsPath == env["dot_env_secrets"]

LoadedOk == op = "load" /\ result = "ok"

\* the lines of the warnings in the log
WarningCount == Cardinality({i \in 1..Len(log) : log[i].level = "warning"})

\* a path variable that is set to a path that is no regular file
SetAndMissing(path) == path \in Paths /\ ~files[path].exists

\* the value the sources other than a missing file give a consumer field
FromSources(base, secrets, k) ==
    IF env[k] /= Unset THEN env[k]
    ELSE IF FileVal(secrets, k) /= Unset THEN FileVal(secrets, k)
    ELSE IF FileVal(base, k) /= Unset THEN FileVal(base, k)
    ELSE IF k = "x" THEN "d"
    ELSE Unset

\* a value of a consumer field that passes validation
Acceptable(k, v) == v /= Unset /\ (k = "mode" => v \in {"dev", "prod"})

----------------------------------------------------------------------------
(* C1: precedence of the sources *)

----------------------------------------------------------------------------
(* C8: the override-file list and the merge of the two files *)

\* the paths that are set (non-empty), base first
SetPaths ==
    (IF BasePath \notin {Unset, ""} THEN <<BasePath>> ELSE <<>>)
    \o (IF SecretsPath \notin {Unset, ""} THEN <<SecretsPath>> ELSE <<>>)

----------------------------------------------------------------------------
(* C9: a path that is set and names no file *)

\* C9: load logs one warning for each of the two path variables that is set to a
\* path that is no regular file, and still returns an instance whenever every
\* consumer field gets a valid value from the remaining sources; the missing file
\* contributes nothing.
C9_MissingFileIsNotFatal ==
    op = "load" =>
        /\ WarningCount = (IF SetAndMissing(BasePath) THEN 1 ELSE 0)
                          + (IF SetAndMissing(SecretsPath) THEN 1 ELSE 0)
        /\ ((result /= "ValueError"
             /\ \A k \in ConsumerFields :
                   Acceptable(k, FromSources(BasePath, SecretsPath, k)))
              => /\ result = "ok"
                 /\ \A k \in ConsumerFields :
                       inst[k] = FromSources(BasePath, SecretsPath, k))

\* a load succeeded although a configured path names no file
C9_Witness ==
    /\ LoadedOk
    /\ SetAndMissing(BasePath) \/ SetAndMissing(SecretsPath)
    /\ WarningCount >= 1

----------------------------------------------------------------------------
(* reload: C2, C3, C10 *)

\* the value re-reading the sources gives a consumer field, the files being those at
\* the paths recorded on the instance
Reread(k) == FromSources(inst["dot_env"], inst["dot_env_secrets"], k)

\* the fields for which a "Reloading changed parameter" record is in lg
ChangedLogged(lg) ==
    {k \in Fields : \E i \in 1..Len(lg) : lg[i] = [level |-> "info", msg |-> <<ChangedLine(k)>>]}

\* C2: when the rebuilt instance fails validation, reload raises and the live
\* instance keeps every field value it had; no changed-parameter line is logged.
C2_FailedReloadLeavesInstance ==
    [][op' = "reload" =>
         /\ ((\E k \in ConsumerFields : ~Acceptable(k, Reread(k)))
               => result' = "ValidationError")
         /\ (result' /= "ok" => inst' = inst /\ ChangedLogged(log') = {})]_vars

\* a reload failed validation while another field had a new, valid value to take
C2_Witness ==
    /\ op = "reload" /\ result = "ValidationError"
    /\ \E k \in ConsumerFields : Acceptable(k, Reread(k)) /\ Reread(k) /= inst[k]

\* C3: after a successful reload every field of the live instance has the re-read
\* value, a changed-parameter line is logged for exactly the fields whose value
\* changed, and the separator is the last line, also when nothing changed.
C3_ReloadUpdatesAndLogsChanges ==
    [][(op' = "reload" /\ result' = "ok") =>
         /\ \A k \in ConsumerFields : inst'[k] = Reread(k)
         /\ \A k \in InitFields : inst'[k] = inst[k]
         /\ ChangedLogged(log') = {k \in Fields : inst'[k] /= inst[k]}
         /\ Len(log') = 1 + Cardinality({k \in Fields : inst'[k] /= inst[k]})
         /\ log'[Len(log')] = [level |-> "info", msg |-> <<"-------------------">>]]_vars

\* a reload succeeded and logged a change of x but none of mode
C3_Witness ==
    /\ op = "reload" /\ result = "ok"
    /\ "x" \in ChangedLogged(log) /\ "mode" \notin ChangedLogged(log)
    /\ inst["x"] = Reread("x")

\* C10: reload changes none of app_name, app_version, dot_env, dot_env_secrets, logs
\* no change for them, and reads the override files from the paths recorded on the
\* instance, whatever DOT_ENV and DOT_ENV_SECRETS hold now.
C10_ReloadKeepsIdentityAndPaths ==
    [][op' = "reload" =>
         /\ \A k \in InitFields : inst'[k] = inst[k] /\ k \notin ChangedLogged(log')
         /\ _env_file' = SelectSeq(<<inst["dot_env"], inst["dot_env_secrets"]>>,
                                   LAMBDA p : p \notin {None, ""})]_vars

\* a reload succeeded after DOT_ENV or the app_name variable was changed
C10_Witness ==
    /\ op = "reload" /\ result = "ok"
    /\ \/ environ_get(env, "dot_env") /= inst["dot_env"]
       \/ (env["app_name"] /= Unset /\ env["app_name"] /= inst["app_name"])

----------------------------------------------------------------------------
(* C5: a load that fails validation *)

\* the consumer fields no source has a value for, and those with an invalid value
MissingNow == {k \in ConsumerFields : FromSources(BasePath, SecretsPath, k) = Unset}
InvalidNow == {k \in ConsumerFields :
                 /\ FromSources(BasePath, SecretsPath, k) /= Unset
                 /\ ~Acceptable(k, FromSources(BasePath, SecretsPath, k))}

\* the position of a line in the message, 0 when it is not there
LineAt(lines, l) == IF \E i \in 1..Len(lines) : lines[i] = l
                    THEN CHOOSE i \in 1..Len(lines) : lines[i] = l ELSE 0

\* the consumer fields in alphabetical order
Alphabetical == <<"api_key", "db_password", "mode", "x">>

\* C5: when construction in load fails validation, load returns no instance and
\* raises one RuntimeError whose message lists every missing field, in sorted order,
\* and a "field: message" entry for every invalid field, and nothing else.
C5_LoadFailureIsOneFormattedError ==
    op = "load" =>
        /\ (MissingNow \cup InvalidNow /= {} /\ result /= "ValueError"
              => result = "RuntimeError")
        /\ (result = "RuntimeError" =>
              /\ inst = NoInst
              /\ MissingNow \cup InvalidNow /= {}
              /\ \A k \in MissingNow : LineAt(errmsg, "  - " \o k) > 0
              /\ \A i, j \in 1..Len(Alphabetical) :
                    (i < j /\ Alphabetical[i] \in MissingNow /\ Alphabetical[j] \in MissingNow)
                      => LineAt(errmsg, "  - " \o Alphabetical[i])
                           < LineAt(errmsg, "  - " \o Alphabetical[j])
              /\ \A k \in InvalidNow :
                    LineAt(errmsg, "  - " \o k \o ": Input should be 'dev' or 'prod'") > 0
              /\ Len(errmsg) = 3
                    + (IF MissingNow /= {} THEN 2 + Cardinality(MissingNow) ELSE 0)
                    + (IF InvalidNow /= {} THEN 2 + Cardinality(InvalidNow) ELSE 0))

\* a load failed with two fields missing and one invalid
C5_Witness ==
    /\ op = "load" /\ result = "RuntimeError"
    /\ Cardinality(MissingNow) >= 2 /\ InvalidNow /= {}

----------------------------------------------------------------------------
(* C6: the formatted message and the order of the errors *)

IsMissing(e) == e.type = "missing"
IsInvalid(e) == e.type /= "missing"

\* C6 as stated: the message is the same for any two orders of the same errors.
C6_MessageIndependentOfOrder ==
    msgA /= <<>> => msgA = msgB

\* C6 as amended: the message is the same for any two orders of the same errors that
\* report the invalid entries in the same relative order; the order of the missing
\* entries does not matter.
C6_MessageIndependentOfMissingOrder ==
    (msgA /= <<>> /\ SelectSeq(errsA, IsInvalid) = SelectSeq(errsB, IsInvalid))
        => msgA = msgB

\* two orders of errors that differ in the order of their missing entries, with an
\* invalid entry among them, were formatted
C6_Witness ==
    /\ msgA /= <<>>
    /\ SelectSeq(errsA, IsMissing) /= SelectSeq(errsB, IsMissing)
    /\ SelectSeq(errsA, IsInvalid) = SelectSeq(errsB, IsInvalid)
    /\ SelectSeq(errsA, IsInvalid) /= <<>>

----------------------------------------------------------------------------
(* C4: safe_describe *)

Redacted(v) == IF v = None \/ v = "" THEN "(empty)" ELSE "(redacted)"
Literal(v) == IF v = None THEN "None" ELSE v

\* C4: safe_describe gives one line per field, sorted by field name; a field whose
\* name contains password, secret, key, token, auth or service_account shows
\* "(empty)" for None and '' and "(redacted)" otherwise, every other field its
\* value; two records that differ only in non-empty values of such fields are
\* described alike.
C4_DescribeRedactsSensitiveFields ==
    /\ \A n \in DOMAIN Chars :
          IsSensitive(n) <=> n \in {"dot_env_secrets", "api_key", "db_password", "auth_token",
                                    "service_account_file", "monkey", "author", "app_secret"}
    /\ outA /= <<>> =>
          /\ outA = << "  api_key: " \o Redacted(recA["api_key"]),
                       "  db_password: " \o Redacted(recA["db_password"]),
                       "  hostname: " \o Literal(recA["hostname"]) >>
          /\ ((/\ recA["hostname"] = recB["hostname"]
               /\ \A k \in {"api_key", "db_password"} :
                     (recA[k] \in {None, ""}) <=> (recB[k] \in {None, ""}))
                => outA = outB)

\* two records that differ in the non-empty values of both sensitive fields, and in
\* nothing else, were described
C4_Witness ==
    /\ outA /= <<>>
    /\ recA["hostname"] = "x" /\ recB["hostname"] = "x"
    /\ recA["api_key"] = "abc123" /\ recB["api_key"] = "x"
    /\ recA["db_password"] = "x" /\ recB["db_password"] = "abc123"
    /\ outA = outB

----------------------------------------------------------------------------
(* C7: app_name and app_version *)

\* C7: an instance returned by load, reloaded any number of times, has a non-empty
\* app_name and a non-empty app_version.
C7_NameAndVersionNonEmpty ==
    inst /= NoInst => inst["app_name"] /= "" /\ inst["app_version"] /= ""

====
